---- MODULE Spec2Model ----
(***************************************************************************)
(* Model of pmc_config_tool.py: the PMCDeviceConfig document (devices,     *)
(* device-scope config pairs, optional SDR section with its own pairs),    *)
(* the value resolver, the raw/real conversion engine, set_config_value,   *)
(* save_file, the interactive threshold session and the --set and          *)
(* --set-thres commands of main().                                         *)
(*                                                                         *)
(* Texts (the strings held in <value> elements and typed by the operator)  *)
(* are records [k, n, d] that name the shape of the string:                *)
(*   k = "hex"     "0x<hex digits of n>"   (n >= 0)                        *)
(*   k = "hexneg"  "0x-<hex digits of n>"  (what f"0x{-n:x}" produces)     *)
(*   k = "dec"     decimal integer literal n, possibly with a minus sign   *)
(*   k = "flt"     decimal literal with a point, value n/d                 *)
(*   k = "str"     a token that no numeric parser accepts (n tells apart)  *)
(*   k = "empty"   the empty string                                        *)
(*   k = "blank"   a string of white space only                            *)
(*   k = "None"    Python's None (no value)                                *)
(*   k = "NoElem"  a config pair that has no <value> child element         *)
(* Every <value> element that is present carries a text.                   *)
(* Numbers (Python int and float results) are exact rationals [n, d].      *)
(***************************************************************************)
EXTENDS Integers, Sequences, FiniteSets, TLC

VARIABLES doc, disk, backup, pc, sess, last, nops

vars == <<doc, disk, backup, pc, sess, last, nops>>

----------------------------------------------------------------------------
(* Texts *)

T(k, n, d) == [k |-> k, n |-> n, d |-> d]
Hex(n) == T("hex", n, 1)
HexNeg(n) == T("hexneg", n, 1)
Dec(n) == T("dec", n, 1)
Flt(n, d) == T("flt", n, d)
Str(i) == T("str", i, 1)
Empty == T("empty", 0, 1)
Blank == T("blank", 0, 1)
None == T("None", 0, 1)
NoElem == T("NoElem", 0, 1)
NoVar == "<no variable>"

(* str.strip() of an operator's input line *)
Strip(s) == IF s.k = "blank" THEN Empty ELSE s

----------------------------------------------------------------------------
(* Exact arithmetic on rationals [n, d], d > 0 *)

Abs(x) == IF x < 0 THEN -x ELSE x

RECURSIVE Gcd(_, _)
Gcd(a, b) == IF b = 0 THEN a ELSE Gcd(b, a % b)

Q(n, d) ==
  LET s == IF d < 0 THEN -1 ELSE 1
      g == Gcd(Abs(n), Abs(d))
  IN  [n |-> (s * n) \div g, d |-> (s * d) \div g]

QInt(n) == [n |-> n, d |-> 1]
QMul(a, b) == Q(a.n * b.n, a.d * b.d)
QDiv(a, b) == Q(a.n * b.d, a.d * b.n)

RECURSIVE Pow10(_)
Pow10(e) == IF e = 0 THEN 1 ELSE 10 * Pow10(e - 1)

(* 10 ** r_exp : an int for r_exp >= 0, the float 10^r_exp for r_exp < 0 *)
TenTo(r) == IF r >= 0 THEN QInt(Pow10(r)) ELSE Q(1, Pow10(-r))

(* round(x) of a float: nearest integer, ties to the even one *)
PyRound(x) ==
  LET q == x.n \div x.d
      r == x.n - q * x.d
  IN  IF 2 * r < x.d THEN q
      ELSE IF 2 * r > x.d THEN q + 1
      ELSE IF q % 2 = 0 THEN q ELSE q + 1

----------------------------------------------------------------------------
(* Parsers and formatters: results are [ok, v] with v a rational *)

Ok(v) == [ok |-> TRUE, v |-> v]
Err == [ok |-> FALSE, v |-> QInt(0)]

(* int(s, 16) if s.startswith(('0x', '0X')) else int(s) *)
ParseIntAuto(s) ==
  CASE s.k = "hex" -> Ok(QInt(s.n))
    [] s.k = "dec" -> Ok(QInt(s.n))
    [] OTHER -> Err

(* str(raw_value); float(int(s, 16) if s.startswith(('0x','0X')) else float(s)) *)
ParseRaw(s) ==
  CASE s.k = "hex" -> Ok(QInt(s.n))
    [] s.k = "dec" -> Ok(QInt(s.n))
    [] s.k = "flt" -> Ok(Q(s.n, s.d))
    [] OTHER -> Err

(* str(real_value); float(s) : no hex auto-detection *)
ParseReal(s) ==
  CASE s.k = "dec" -> Ok(QInt(s.n))
    [] s.k = "flt" -> Ok(Q(s.n, s.d))
    [] OTHER -> Err

(* f"0x{raw_val:x}" *)
FormatHex(i) == IF i >= 0 THEN Hex(i) ELSE HexNeg(-i)

(* str(x) of a float x, as convert_* applies it to a float argument *)
StrOfFloat(x) == Flt(x.n, x.d)

----------------------------------------------------------------------------
(* Variable names.  variable.startswith('SDR_') and variable[4:] on the     *)
(* names the model uses.                                                    *)

SdrTable ==
  [SDR_FOO |-> "FOO", SDR_BAR |-> "BAR", SDR_M_VAL |-> "M_VAL",
   SDR_R_EXP |-> "R_EXP", SDR_UPPER_CRITICAL |-> "UPPER_CRITICAL",
   SDR_LOWER_CRITICAL |-> "LOWER_CRITICAL", SDR_LWR_T_MASK |-> "LWR_T_MASK"]

StartsWithSDR(variable) == variable \in DOMAIN SdrTable
StripSDR(variable) == SdrTable[variable]

THRESHOLD_PARAMS ==
  {"NOMINAL_READING", "NOMINAL_MAX", "NOMINAL_MIN", "SEN_MAX", "SEN_MIN",
   "UPPER_NON_RECOVERABLE", "UPPER_CRITICAL", "UPPER_NON_CRITICAL",
   "LOWER_NON_RECOVERABLE", "LOWER_CRITICAL", "LOWER_NON_CRITICAL"}

ordered_params ==
  <<"LOWER_NON_RECOVERABLE", "LOWER_CRITICAL", "LOWER_NON_CRITICAL",
    "UPPER_NON_CRITICAL", "UPPER_CRITICAL", "UPPER_NON_RECOVERABLE",
    "SEN_MIN", "SEN_MAX", "NOMINAL_MIN", "NOMINAL_MAX">>

mask_params == <<"LWR_T_MASK", "UPR_T_MASK", "S_R_T_MASK">>

----------------------------------------------------------------------------
(* The document: a sequence of devices                                      *)
(*   [name, cfg : Seq(pair), hasSdr, sdr : Seq(pair)]                       *)
(* a pair is [var, val]: var a name or NoVar (no <variable> child), val a   *)
(* text or NoElem (no <value> child).                                       *)

Pair(var, val) == [var |-> var, val |-> val]
Device(name, cfg, hasSdr, sdr) ==
  [name |-> name, cfg |-> cfg, hasSdr |-> hasSdr, sdr |-> sdr]

(* val_elem.text if val_elem is not None else None *)
ValText(p) == IF p.val = NoElem THEN None ELSE p.val

(* index of the first pair of the scope whose variable is v, 0 if none *)
FirstMatch(pairs, v) ==
  IF \E i \in 1..Len(pairs) : pairs[i].var = v
  THEN CHOOSE i \in 1..Len(pairs) :
         pairs[i].var = v /\ \A j \in 1..(i - 1) : pairs[j].var # v
  ELSE 0

(* index of the first pair whose variable is v and that has a <value> *)
FirstSettable(pairs, v) ==
  IF \E i \in 1..Len(pairs) : pairs[i].var = v /\ pairs[i].val # NoElem
  THEN CHOOSE i \in 1..Len(pairs) :
         /\ pairs[i].var = v /\ pairs[i].val # NoElem
         /\ \A j \in 1..(i - 1) : ~(pairs[j].var = v /\ pairs[j].val # NoElem)
  ELSE 0

(* the loop "for config_elem in scope: if var == v: return text" *)
ScopeLookup(pairs, v) ==
  LET k == FirstMatch(pairs, v)
  IN  IF k = 0 THEN None ELSE ValText(pairs[k])

(* the loop of get_mval_rexp_from_anywhere over the device scope: every    *)
(* pair named v that has a <value> overwrites the variable, no break       *)
RECURSIVE ScanAssign(_, _, _)
ScanAssign(pairs, v, acc) ==
  IF pairs = << >> THEN acc
  ELSE ScanAssign(Tail(pairs), v,
         IF Head(pairs).var = v /\ Head(pairs).val # NoElem
         THEN Head(pairs).val ELSE acc)

get_device_by_name(D, name) ==
  IF \E i \in 1..Len(D) : D[i].name = name
  THEN CHOOSE i \in 1..Len(D) :
         D[i].name = name /\ \A j \in 1..(i - 1) : D[j].name # name
  ELSE 0

get_sdr_config_value(D, dev_name, variable) ==
  LET i == get_device_by_name(D, dev_name)
  IN  IF i = 0 THEN None
      ELSE IF ~D[i].hasSdr THEN None
      ELSE ScopeLookup(D[i].sdr, variable)

(* mutant: a prefixed lookup that misses in the SDR scope falls back to the  *)
(* device scope                                                             *)
get_config_value_fallback(D, dev_name, variable) ==
  LET i == get_device_by_name(D, dev_name)
  IN  IF i = 0 THEN None
      ELSE IF StartsWithSDR(variable)
      THEN IF D[i].hasSdr /\ FirstMatch(D[i].sdr, StripSDR(variable)) # 0
           THEN ScopeLookup(D[i].sdr, StripSDR(variable))
           ELSE ScopeLookup(D[i].cfg, StripSDR(variable))
      ELSE IF FirstMatch(D[i].cfg, variable) # 0
      THEN ScopeLookup(D[i].cfg, variable)
      ELSE IF D[i].hasSdr THEN ScopeLookup(D[i].sdr, variable)
      ELSE None

get_config_value(D, dev_name, variable) ==
  LET i == get_device_by_name(D, dev_name)
  IN  IF i = 0 THEN None
      ELSE IF StartsWithSDR(variable)
      THEN IF D[i].hasSdr THEN ScopeLookup(D[i].sdr, StripSDR(variable))
           ELSE None
      ELSE IF FirstMatch(D[i].cfg, variable) # 0
      THEN ScopeLookup(D[i].cfg, variable)
      ELSE IF D[i].hasSdr THEN ScopeLookup(D[i].sdr, variable)
      ELSE None

(* mutant: each coefficient falls back to the SDR scope on its own *)
get_mval_rexp_per_field(D, dev_name) ==
  LET i == get_device_by_name(D, dev_name)
  IN  IF i = 0 THEN <<None, None>>
      ELSE LET m_val_device == ScanAssign(D[i].cfg, "M_VAL", None)
               r_exp_device == ScanAssign(D[i].cfg, "R_EXP", None)
           IN  <<IF m_val_device # None THEN m_val_device
                 ELSE get_sdr_config_value(D, dev_name, "M_VAL"),
                 IF r_exp_device # None THEN r_exp_device
                 ELSE get_sdr_config_value(D, dev_name, "R_EXP")>>

(* <<M_VAL, R_EXP>> as texts, None for a missing one *)
get_mval_rexp_from_anywhere(D, dev_name) ==
  LET i == get_device_by_name(D, dev_name)
  IN  IF i = 0 THEN <<None, None>>
      ELSE LET m_val_device == ScanAssign(D[i].cfg, "M_VAL", None)
               r_exp_device == ScanAssign(D[i].cfg, "R_EXP", None)
           IN  IF m_val_device # None /\ r_exp_device # None
               THEN <<m_val_device, r_exp_device>>
               ELSE <<get_sdr_config_value(D, dev_name, "M_VAL"),
                      get_sdr_config_value(D, dev_name, "R_EXP")>>

(* set_config_value: [ok, doc] *)
SetAt(D, i, scope, k, new_value) ==
  [D EXCEPT ![i][scope][k].val = new_value]

(* mutant: a prefixed variable that the SDR scope lacks is created there *)
set_config_value_create_sdr(D, dev_name, variable, new_value) ==
  LET i == get_device_by_name(D, dev_name)
  IN  IF i = 0 THEN [ok |-> FALSE, doc |-> D]
      ELSE IF StartsWithSDR(variable)
      THEN LET k == FirstSettable(D[i].sdr, StripSDR(variable))
           IN  IF k # 0
               THEN [ok |-> TRUE, doc |-> SetAt(D, i, "sdr", k, new_value)]
               ELSE [ok |-> TRUE,
                     doc |-> [D EXCEPT ![i].hasSdr = TRUE, ![i].sdr =
                                Append(@, Pair(StripSDR(variable), new_value))]]
      ELSE LET k == FirstSettable(D[i].cfg, variable)
               s == IF D[i].hasSdr THEN FirstSettable(D[i].sdr, variable) ELSE 0
           IN  IF k # 0
               THEN [ok |-> TRUE, doc |-> SetAt(D, i, "cfg", k, new_value)]
               ELSE IF s # 0
               THEN [ok |-> TRUE, doc |-> SetAt(D, i, "sdr", s, new_value)]
               ELSE [ok |-> TRUE,
                     doc |-> [D EXCEPT ![i].cfg =
                                Append(@, Pair(variable, new_value))]]

(* mutant: a variable found in neither scope is reported as not found      *)
(* instead of being created in the device scope                             *)
set_config_value_no_create(D, dev_name, variable, new_value) ==
  LET i == get_device_by_name(D, dev_name)
  IN  IF i = 0 THEN [ok |-> FALSE, doc |-> D]
      ELSE IF StartsWithSDR(variable)
      THEN IF ~D[i].hasSdr THEN [ok |-> FALSE, doc |-> D]
           ELSE LET k == FirstSettable(D[i].sdr, StripSDR(variable))
                IN  IF k # 0
                    THEN [ok |-> TRUE, doc |-> SetAt(D, i, "sdr", k, new_value)]
                    ELSE [ok |-> FALSE, doc |-> D]
      ELSE LET k == FirstSettable(D[i].cfg, variable)
               s == IF D[i].hasSdr THEN FirstSettable(D[i].sdr, variable) ELSE 0
           IN  IF k # 0
               THEN [ok |-> TRUE, doc |-> SetAt(D, i, "cfg", k, new_value)]
               ELSE IF s # 0
               THEN [ok |-> TRUE, doc |-> SetAt(D, i, "sdr", s, new_value)]
               ELSE [ok |-> FALSE, doc |-> D]

(* mutant: the device-scope loop does not return at the first pair it       *)
(* overwrites, so every pair of that name with a <value> is overwritten     *)
set_config_value_all_matches(D, dev_name, variable, new_value) ==
  LET i == get_device_by_name(D, dev_name)
  IN  IF i = 0 THEN [ok |-> FALSE, doc |-> D]
      ELSE IF StartsWithSDR(variable)
      THEN IF ~D[i].hasSdr THEN [ok |-> FALSE, doc |-> D]
           ELSE LET k == FirstSettable(D[i].sdr, StripSDR(variable))
                IN  IF k # 0
                    THEN [ok |-> TRUE, doc |-> SetAt(D, i, "sdr", k, new_value)]
                    ELSE [ok |-> FALSE, doc |-> D]
      ELSE LET k == FirstSettable(D[i].cfg, variable)
               s == IF D[i].hasSdr THEN FirstSettable(D[i].sdr, variable) ELSE 0
           IN  IF k # 0
               THEN [ok |-> TRUE,
                     doc |-> [D EXCEPT ![i].cfg =
                                [n \in 1..Len(@) |->
                                   IF @[n].var = variable /\ @[n].val # NoElem
                                   THEN Pair(variable, new_value) ELSE @[n]]]]
               ELSE IF s # 0
               THEN [ok |-> TRUE, doc |-> SetAt(D, i, "sdr", s, new_value)]
               ELSE [ok |-> TRUE,
                     doc |-> [D EXCEPT ![i].cfg =
                                Append(@, Pair(variable, new_value))]]

set_config_value(D, dev_name, variable, new_value) ==
  LET i == get_device_by_name(D, dev_name)
  IN  IF i = 0 THEN [ok |-> FALSE, doc |-> D]
      ELSE IF StartsWithSDR(variable)
      THEN IF ~D[i].hasSdr THEN [ok |-> FALSE, doc |-> D]
           ELSE LET k == FirstSettable(D[i].sdr, StripSDR(variable))
                IN  IF k # 0
                    THEN [ok |-> TRUE, doc |-> SetAt(D, i, "sdr", k, new_value)]
                    ELSE [ok |-> FALSE, doc |-> D]
      ELSE LET k == FirstSettable(D[i].cfg, variable)
               s == IF D[i].hasSdr THEN FirstSettable(D[i].sdr, variable) ELSE 0
           IN  IF k # 0
               THEN [ok |-> TRUE, doc |-> SetAt(D, i, "cfg", k, new_value)]
               ELSE IF s # 0
               THEN [ok |-> TRUE, doc |-> SetAt(D, i, "sdr", s, new_value)]
               ELSE [ok |-> TRUE,
                     doc |-> [D EXCEPT ![i].cfg =
                                Append(@, Pair(variable, new_value))]]

----------------------------------------------------------------------------
(* Conversion engine: results are [kind, v]; kind "ok" or the error the    *)
(* code reports (every error returns None to the caller)                   *)

Res(kind, v) == [kind |-> kind, v |-> v]
Fail(kind) == Res(kind, QInt(0))

convert_raw_to_real(D, dev_name, raw_value) ==
  LET cf == get_mval_rexp_from_anywhere(D, dev_name)
      m_val == ParseIntAuto(cf[1])
      r_exp == ParseIntAuto(cf[2])
      raw_val == ParseRaw(raw_value)
  IN  IF get_device_by_name(D, dev_name) = 0 THEN Fail("DeviceNotFound")
      ELSE IF cf[1] = None \/ cf[2] = None THEN Fail("MissingCoefficients")
      ELSE IF ~m_val.ok \/ ~r_exp.ok \/ ~raw_val.ok THEN Fail("ConversionError")
      ELSE Res("ok", QMul(QMul(m_val.v, raw_val.v), TenTo(r_exp.v.n)))

(* mutant: the real value is multiplied by the denominator *)
convert_real_to_raw_mul(D, dev_name, real_value) ==
  LET cf == get_mval_rexp_from_anywhere(D, dev_name)
      m_val == ParseIntAuto(cf[1])
      r_exp == ParseIntAuto(cf[2])
      real_val == ParseReal(real_value)
      denominator == QMul(m_val.v, TenTo(r_exp.v.n))
  IN  IF get_device_by_name(D, dev_name) = 0 THEN Fail("DeviceNotFound")
      ELSE IF cf[1] = None \/ cf[2] = None THEN Fail("MissingCoefficients")
      ELSE IF ~m_val.ok \/ ~r_exp.ok \/ ~real_val.ok THEN Fail("ConversionError")
      ELSE IF denominator.n = 0 THEN Fail("DivisionByZero")
      ELSE Res("ok", QInt(PyRound(QMul(real_val.v, denominator))))

(* mutant: no test of the denominator; the division raises                 *)
(* ZeroDivisionError, which the except clause does not catch               *)
convert_real_to_raw_nocheck(D, dev_name, real_value) ==
  LET cf == get_mval_rexp_from_anywhere(D, dev_name)
      m_val == ParseIntAuto(cf[1])
      r_exp == ParseIntAuto(cf[2])
      real_val == ParseReal(real_value)
      denominator == QMul(m_val.v, TenTo(r_exp.v.n))
  IN  IF get_device_by_name(D, dev_name) = 0 THEN Fail("DeviceNotFound")
      ELSE IF cf[1] = None \/ cf[2] = None THEN Fail("MissingCoefficients")
      ELSE IF ~m_val.ok \/ ~r_exp.ok \/ ~real_val.ok THEN Fail("ConversionError")
      ELSE IF denominator.n = 0 THEN Fail("ZeroDivisionError")
      ELSE Res("ok", QInt(PyRound(QDiv(real_val.v, denominator))))

convert_real_to_raw(D, dev_name, real_value) ==
  LET cf == get_mval_rexp_from_anywhere(D, dev_name)
      m_val == ParseIntAuto(cf[1])
      r_exp == ParseIntAuto(cf[2])
      real_val == ParseReal(real_value)
      denominator == QMul(m_val.v, TenTo(r_exp.v.n))
  IN  IF get_device_by_name(D, dev_name) = 0 THEN Fail("DeviceNotFound")
      ELSE IF cf[1] = None \/ cf[2] = None THEN Fail("MissingCoefficients")
      ELSE IF ~m_val.ok \/ ~r_exp.ok \/ ~real_val.ok THEN Fail("ConversionError")
      ELSE IF denominator.n = 0 THEN Fail("DivisionByZero")
      ELSE Res("ok", QInt(PyRound(QDiv(real_val.v, denominator))))

----------------------------------------------------------------------------
(* Files: the on-disk PMC file and its .backup sibling *)

File(D) == [st |-> "file", d |-> D]
Missing == [st |-> "missing", d |-> << >>]
Partial == [st |-> "partial", d |-> << >>]

(* Record of the last call: its arguments, what it returned and the state   *)
(* it started from                                                          *)
L0 ==
  [op |-> "none", dev |-> "", var |-> "", arg |-> None, res |-> None,
   ok |-> FALSE, kind |-> "", num |-> QInt(0), coef |-> <<None, None>>,
   pre |-> << >>, pdisk |-> Missing, pbackup |-> Missing, flag |-> FALSE]

S0 ==
  [dev |-> "", doc0 |-> << >>, disk0 |-> Missing, backup0 |-> Missing,
   current_values |-> << >>, i |-> 0, j |-> 0, changes |-> << >>,
   answer |-> "", success_count |-> 0, applied |-> FALSE, saved |-> FALSE]

----------------------------------------------------------------------------
(* Bounds and input sets *)

MaxPairs == 2

DevNames == {"D1", "DX"}

SeqsUpTo(S, n) == UNION {[1..k -> S] : k \in 0..n}

OtherDevice == Device("D2", <<Pair("FOO", Str(7))>>, TRUE, <<Pair("FOO", Str(8))>>)

(* Documents for the resolver: device D1 with up to n pairs per scope,      *)
(* named FOO and SDR_FOO in device scope, FOO in the SDR scope, with and    *)
(* without <value>, or without SDR section; a second device D2 follows it.  *)
ResolverCfgPairs ==
  {Pair("FOO", Str(1)), Pair("FOO", Str(2)), Pair("FOO", NoElem),
   Pair("SDR_FOO", Str(1)), Pair("SDR_FOO", Str(2))}
ResolverSdrPairs ==
  {Pair("FOO", Str(3)), Pair("FOO", Str(4)), Pair("FOO", NoElem),
   Pair(NoVar, Str(3))}

ResolverDocs(n) ==
  {<<Device("D1", c, TRUE, s), OtherDevice>> :
     c \in SeqsUpTo(ResolverCfgPairs, n),
     s \in SeqsUpTo(ResolverSdrPairs, n)} \cup
  {<<Device("D1", c, FALSE, << >>), OtherDevice>> :
     c \in SeqsUpTo(ResolverCfgPairs, n)}

ResolverVars == {"FOO", "SDR_FOO", "BAR", "SDR_BAR"}
ResolverValues == {Str(5)}

----------------------------------------------------------------------------
(* Calls of the resolver and of set_config_value on a loaded document *)

DoGet(dev, variable) ==
  /\ pc = "api" /\ last.op = "none"
  /\ last' = [L0 EXCEPT !.op = "get", !.dev = dev, !.var = variable,
                        !.res = get_config_value(doc, dev, variable),
                        !.pre = doc]
  /\ UNCHANGED <<doc, disk, backup, pc, sess, nops>>

DoSet(dev, variable, new_value) ==
  /\ pc = "api" /\ last.op = "none"
  /\ LET r == set_config_value(doc, dev, variable, new_value)
     IN  /\ doc' = r.doc
         /\ last' = [L0 EXCEPT !.op = "set", !.dev = dev, !.var = variable,
                               !.arg = new_value, !.ok = r.ok, !.pre = doc]
  /\ UNCHANGED <<disk, backup, pc, sess, nops>>

InitResolver ==
  /\ doc \in ResolverDocs(MaxPairs)
  /\ disk = File(doc) /\ backup = Missing
  /\ pc = "api" /\ sess = S0 /\ last = L0 /\ nops = 0

NextResolver ==
  \/ \E dev \in DevNames, v \in ResolverVars : DoGet(dev, v)
  \/ \E dev \in DevNames, v \in ResolverVars, x \in ResolverValues :
       DoSet(dev, v, x)

SpecResolver == InitResolver /\ [][NextResolver]_vars

----------------------------------------------------------------------------
(* Vocabulary of the claims about scopes *)

Defines(pairs, v) == \E k \in 1..Len(pairs) : pairs[k].var = v

(* the values a scope gives to v: the text of a pair named v, None for a    *)
(* pair named v that has no <value>                                         *)
ScopeValues(pairs, v) ==
  {IF pairs[k].val = NoElem THEN None ELSE pairs[k].val :
     k \in {k \in 1..Len(pairs) : pairs[k].var = v}}

(* the device a call addressed, in the document the call started from *)
Target == last.pre[get_device_by_name(last.pre, last.dev)]
Found == get_device_by_name(last.pre, last.dev) # 0
SdrDefines(v) == Target.hasSdr /\ Defines(Target.sdr, v)

(* C1: get_value("SDR_FOO") looks in the SDR scope only: it is absent when  *)
(* the SDR scope has no FOO, whatever the device scope holds under FOO or   *)
(* SDR_FOO, and otherwise a value the SDR scope gives to FOO;               *)
(* get_value("FOO") is a device-scope value of FOO whenever the device      *)
(* scope defines FOO, and an SDR-scope value only when it does not.         *)
C1_GetValueScopes ==
  (last.op = "get" /\ Found) =>
    IF StartsWithSDR(last.var)
    THEN IF SdrDefines(StripSDR(last.var))
         THEN last.res \in ScopeValues(Target.sdr, StripSDR(last.var))
         ELSE last.res = None
    ELSE IF Defines(Target.cfg, last.var)
         THEN last.res \in ScopeValues(Target.cfg, last.var)
         ELSE IF SdrDefines(last.var)
         THEN last.res \in ScopeValues(Target.sdr, last.var)
         ELSE last.res = None

(* a get of SDR_FOO answered absent although the device scope holds both a  *)
(* FOO pair and a pair literally named SDR_FOO, each with a value           *)
C1_Witness ==
  /\ last.op = "get" /\ Found /\ last.var = "SDR_FOO"
  /\ \E k \in 1..Len(Target.cfg) :
       Target.cfg[k].var = "FOO" /\ Target.cfg[k].val # NoElem
  /\ \E k \in 1..Len(Target.cfg) :
       Target.cfg[k].var = "SDR_FOO" /\ Target.cfg[k].val # NoElem
  /\ ~SdrDefines("FOO")
  /\ last.res = None

(* C2: set_value on an unprefixed variable absent from both scopes succeeds *)
(* and appends exactly one pair (variable, value) to the device scope;      *)
(* set_value on an SDR_-prefixed variable absent from the SDR scope, or on  *)
(* a device without SDR section, fails and leaves the document unchanged.   *)
C2_SetAbsentVariable ==
  (last.op = "set" /\ Found) =>
    LET i == get_device_by_name(last.pre, last.dev)
    IN  /\ (/\ ~StartsWithSDR(last.var)
            /\ ~Defines(Target.cfg, last.var)
            /\ ~SdrDefines(last.var))
           => /\ last.ok
              /\ doc = [last.pre EXCEPT ![i].cfg =
                          Append(@, Pair(last.var, last.arg))]
        /\ (StartsWithSDR(last.var) /\ ~SdrDefines(StripSDR(last.var)))
           => (~last.ok /\ doc = last.pre)

(* an unprefixed variable absent from both scopes of a device that has an   *)
(* SDR section was set, and the device scope grew by one pair               *)
C2_Witness ==
  /\ last.op = "set" /\ Found /\ last.var = "BAR" /\ last.ok
  /\ Target.hasSdr /\ Target.sdr # << >> /\ Target.cfg # << >>
  /\ Len(doc[1].cfg) = Len(Target.cfg) + 1

(* an SDR_-prefixed set failed on a device whose device scope defines the   *)
(* stripped name: nothing was created                                       *)
C2_WitnessSdr ==
  /\ last.op = "set" /\ Found /\ last.var = "SDR_FOO" /\ ~last.ok
  /\ Defines(Target.cfg, "FOO") /\ Defines(Target.cfg, "SDR_FOO")
  /\ doc = last.pre

----------------------------------------------------------------------------
(* Documents for the conversion engine: up to n M_VAL and R_EXP pairs in    *)
(* the device scope and in the SDR scope of D1, the two scopes holding      *)
(* different texts; D2 carries its own coefficients.                        *)

CoeffCfgPairs ==
  {Pair("M_VAL", Dec(2)), Pair("M_VAL", Dec(0)), Pair("M_VAL", NoElem),
   Pair("R_EXP", Dec(-1)), Pair("R_EXP", Str(2))}
CoeffSdrPairs ==
  {Pair("M_VAL", Hex(3)), Pair("R_EXP", Dec(1)), Pair("R_EXP", NoElem)}

CoeffDevice2 ==
  Device("D2", <<Pair("M_VAL", Dec(5)), Pair("R_EXP", Dec(0))>>, FALSE, << >>)

CoeffDocs(n) ==
  {<<Device("D1", c, TRUE, s), CoeffDevice2>> :
     c \in SeqsUpTo(CoeffCfgPairs, n),
     s \in SeqsUpTo(CoeffSdrPairs, n)} \cup
  {<<Device("D1", c, FALSE, << >>), CoeffDevice2>> :
     c \in SeqsUpTo(CoeffCfgPairs, n)}

RawInputs == {Hex(100), Dec(-4), Flt(7, 1), Flt(5, 2), Flt(7, 2), Str(1)}
RealInputs == {Dec(20), Flt(-3, 2), Flt(5, 2), Hex(100), Str(1)}
ConvDevNames == {"D1", "D2", "DX"}

(* realToRaw(D, rawToReal(D, v)): the float, or the None, that              *)
(* convert_raw_to_real returns is handed to convert_real_to_raw             *)
RoundTrip(D, dev_name, raw_value) ==
  LET r == convert_raw_to_real(D, dev_name, raw_value)
  IN  convert_real_to_raw(D, dev_name,
        IF r.kind = "ok" THEN StrOfFloat(r.v) ELSE None)

DoCoeffs(dev) ==
  /\ pc = "api" /\ last.op = "none"
  /\ last' = [L0 EXCEPT !.op = "coeffs", !.dev = dev, !.pre = doc,
                        !.coef = get_mval_rexp_from_anywhere(doc, dev)]
  /\ UNCHANGED <<doc, disk, backup, pc, sess, nops>>

DoRawToReal(dev, raw_value) ==
  /\ pc = "api" /\ last.op = "none"
  /\ LET r == convert_raw_to_real(doc, dev, raw_value)
     IN  last' = [L0 EXCEPT !.op = "raw2real", !.dev = dev, !.pre = doc,
                            !.arg = raw_value, !.kind = r.kind, !.num = r.v,
                            !.coef = get_mval_rexp_from_anywhere(doc, dev)]
  /\ UNCHANGED <<doc, disk, backup, pc, sess, nops>>

DoRealToRaw(dev, real_value) ==
  /\ pc = "api" /\ last.op = "none"
  /\ LET r == convert_real_to_raw(doc, dev, real_value)
     IN  last' = [L0 EXCEPT !.op = "real2raw", !.dev = dev, !.pre = doc,
                            !.arg = real_value, !.kind = r.kind, !.num = r.v,
                            !.coef = get_mval_rexp_from_anywhere(doc, dev)]
  /\ UNCHANGED <<doc, disk, backup, pc, sess, nops>>

DoRoundTrip(dev, raw_value) ==
  /\ pc = "api" /\ last.op = "none"
  /\ LET r == RoundTrip(doc, dev, raw_value)
     IN  last' = [L0 EXCEPT !.op = "roundtrip", !.dev = dev, !.pre = doc,
                            !.arg = raw_value, !.kind = r.kind, !.num = r.v,
                            !.coef = get_mval_rexp_from_anywhere(doc, dev)]
  /\ UNCHANGED <<doc, disk, backup, pc, sess, nops>>

InitConv ==
  /\ doc \in CoeffDocs(MaxPairs)
  /\ disk = File(doc) /\ backup = Missing
  /\ pc = "api" /\ sess = S0 /\ last = L0 /\ nops = 0

NextConv ==
  \/ \E dev \in ConvDevNames : DoCoeffs(dev)
  \/ \E v \in RawInputs : DoRawToReal("D1", v)
  \/ \E x \in RealInputs : DoRealToRaw("D1", x)
  \/ \E v \in RawInputs : DoRoundTrip("D1", v)

SpecConv == InitConv /\ [][NextConv]_vars

(* texts that pairs named v of a scope carry in a <value> *)
Valued(pairs, v) ==
  {pairs[k].val : k \in {k \in 1..Len(pairs) :
                           pairs[k].var = v /\ pairs[k].val # NoElem}}
SdrValued(v) == IF Target.hasSdr THEN Valued(Target.sdr, v) ELSE {}
DevBoth == Valued(Target.cfg, "M_VAL") # {} /\ Valued(Target.cfg, "R_EXP") # {}
Usable == last.coef[1] # None /\ last.coef[2] # None
FromDevice ==
  /\ last.coef[1] \in Valued(Target.cfg, "M_VAL")
  /\ last.coef[2] \in Valued(Target.cfg, "R_EXP")
FromSdr ==
  /\ last.coef[1] \in SdrValued("M_VAL")
  /\ last.coef[2] \in SdrValued("R_EXP")
SplitAcrossScopes ==
  \/ /\ Valued(Target.cfg, "M_VAL") # {} /\ Valued(Target.cfg, "R_EXP") = {}
     /\ SdrValued("M_VAL") = {} /\ SdrValued("R_EXP") # {}
  \/ /\ Valued(Target.cfg, "R_EXP") # {} /\ Valued(Target.cfg, "M_VAL") = {}
     /\ SdrValued("R_EXP") = {} /\ SdrValued("M_VAL") # {}

(* C3: the coefficients are the device-scope M_VAL and R_EXP whenever both  *)
(* are present in device scope, whatever the SDR scope holds; otherwise a   *)
(* usable pair is the SDR-scope M_VAL and R_EXP; a pair never takes one     *)
(* coefficient from each scope, and with the coefficients split across the  *)
(* scopes rawToReal and realToRaw fail with MissingCoefficients.            *)
C3_CoefficientsAtomicPair ==
  (last.op \in {"coeffs", "raw2real", "real2raw"} /\ Found) =>
    /\ DevBoth => FromDevice
    /\ (~DevBoth /\ Usable) => FromSdr
    /\ Usable => (FromDevice \/ FromSdr)
    /\ (SplitAcrossScopes /\ last.op # "coeffs")
         => last.kind = "MissingCoefficients"

(* a conversion on a device with M_VAL only in device scope and R_EXP only  *)
(* in the SDR scope                                                         *)
C3_Witness ==
  /\ last.op = "real2raw" /\ Found /\ SplitAcrossScopes
  /\ Valued(Target.cfg, "M_VAL") # {}
  /\ last.kind = "MissingCoefficients"

(* both coefficients in device scope and both in SDR scope: device wins *)
C3_WitnessBoth ==
  /\ last.op = "coeffs" /\ Found /\ DevBoth
  /\ SdrValued("M_VAL") # {} /\ SdrValued("R_EXP") # {}
  /\ FromDevice

(* the coefficients resolved for the call parse as integers, and the        *)
(* denominator M_VAL * 10^R_EXP is not zero                                 *)
CoefM == ParseIntAuto(last.coef[1])
CoefR == ParseIntAuto(last.coef[2])
CoefficientsNonzero ==
  Found /\ Usable /\ CoefM.ok /\ CoefR.ok /\ CoefM.v.n # 0
IsRawValue(s) == ParseRaw(s).ok
IsIntegerRaw(s) == ParseRaw(s).ok /\ ParseRaw(s).v.d = 1

C5_ZeroMValAlwaysDivisionByZero ==
  (last.op = "real2raw" /\ Found /\ Usable /\ CoefM.ok /\ CoefM.v.n = 0) =>
    last.kind = "DivisionByZero"

(* C5 amended: whenever the resolved M_VAL is 0, realToRaw returns no raw   *)
(* value; it fails with DivisionByZero when R_EXP and the real-value input  *)
(* both parse as numbers, and with ConversionError when either does not.    *)
C5_ZeroMValFails ==
  (last.op = "real2raw" /\ Found /\ Usable /\ CoefM.ok /\ CoefM.v.n = 0) =>
    IF CoefR.ok /\ ParseReal(last.arg).ok
    THEN last.kind = "DivisionByZero"
    ELSE last.kind = "ConversionError"

(* realToRaw of a parseable real value under M_VAL = 0 *)
C5_Witness ==
  /\ last.op = "real2raw" /\ Found /\ last.coef = <<Dec(0), Dec(-1)>>
  /\ last.arg = Flt(5, 2) /\ last.kind = "DivisionByZero"

----------------------------------------------------------------------------
(* save_file.  outcome is what tree.write does: "ok", "fail_open" (the     *)
(* file could not be opened: nothing is written) or "fail_partial" (the    *)
(* write stopped after the file was opened).  os.replace raises when the   *)
(* PMC file does not exist; that exception is not caught by save_file.     *)

WriteOutcomes == {"ok", "fail_open", "fail_partial"}

SaveRes(ret, dsk, bak) == [ret |-> ret, disk |-> dsk, backup |-> bak]

(* mutant: the document is written first and the file moved afterwards *)
save_file_write_first(D, dsk, bak, do_backup, outcome) ==
  LET written == CASE outcome = "ok" -> File(D)
                   [] outcome = "fail_open" -> dsk
                   [] OTHER -> Partial
      ret == IF outcome = "ok" THEN "True" ELSE "False"
  IN  IF do_backup /\ written.st = "missing" THEN SaveRes("raise", dsk, bak)
      ELSE IF do_backup THEN SaveRes(ret, Missing, written)
      ELSE SaveRes(ret, written, bak)

save_file(D, dsk, bak, do_backup, outcome) ==
  IF do_backup /\ dsk.st = "missing" THEN SaveRes("raise", dsk, bak)
  ELSE LET moved == IF do_backup THEN Missing ELSE dsk
           bak2 == IF do_backup THEN dsk ELSE bak
       IN  CASE outcome = "ok" -> SaveRes("True", File(D), bak2)
             [] outcome = "fail_open" -> SaveRes("False", moved, bak2)
             [] OTHER -> SaveRes("False", Partial, bak2)

(* Sequences of set_config_value and save_file calls on one loaded file *)

MaxOps == 3

LibDocs ==
  {<<Device("D1", c, TRUE, <<Pair("FOO", Str(3))>>)>> :
     c \in {<< >>, <<Pair("FOO", Str(1))>>}}
LibVars == {"FOO", "BAR", "SDR_FOO", "SDR_BAR"}
LibValues == {Str(5), Str(6)}

LibSet(dev, variable, new_value) ==
  /\ pc = "lib" /\ nops < MaxOps
  /\ LET r == set_config_value(doc, dev, variable, new_value)
     IN  /\ doc' = r.doc
         /\ last' = [L0 EXCEPT !.op = "set", !.dev = dev, !.var = variable,
                               !.arg = new_value, !.ok = r.ok, !.pre = doc,
                               !.pdisk = disk, !.pbackup = backup]
  /\ nops' = nops + 1
  /\ UNCHANGED <<disk, backup, pc, sess>>

LibSave(do_backup, outcome) ==
  /\ pc = "lib" /\ nops < MaxOps
  /\ LET r == save_file(doc, disk, backup, do_backup, outcome)
     IN  /\ disk' = r.disk
         /\ backup' = r.backup
         /\ last' = [L0 EXCEPT !.op = "save", !.flag = do_backup,
                               !.kind = r.ret, !.pre = doc,
                               !.pdisk = disk, !.pbackup = backup]
         /\ pc' = IF r.ret = "raise" THEN "crashed" ELSE pc
  /\ nops' = nops + 1
  /\ UNCHANGED <<doc, sess>>

InitPersist ==
  /\ doc \in LibDocs
  /\ disk = File(doc) /\ backup \in {Missing, File(<< >>)}
  /\ pc = "lib" /\ sess = S0 /\ last = L0 /\ nops = 0

NextPersist ==
  \/ \E v \in LibVars, x \in LibValues : LibSet("D1", v, x)
  \/ \E b \in BOOLEAN, o \in WriteOutcomes : LibSave(b, o)

SpecPersist == InitPersist /\ [][NextPersist]_vars

(* C9: in any sequence of set_value and persist calls, a persist with       *)
(* backup that succeeds leaves in .backup exactly what the PMC file held    *)
(* immediately before it and in the PMC file the in-memory document; when   *)
(* the write fails persist reports failure, the backup holds the previous   *)
(* content and the PMC file no longer does (it was moved before the write); *)
(* without backup the .backup file is not created or changed.  persist      *)
(* never changes the in-memory document.                                    *)
C9_PersistBackupThenWrite ==
  (last.op = "save" /\ last.kind # "raise") =>
    /\ doc = last.pre
    /\ last.kind = "True" => disk = File(doc)
    /\ last.flag => backup = last.pdisk
    /\ (last.flag /\ last.kind = "False") => disk.st # "file"
    /\ ~last.flag => backup = last.pbackup

(* a second successful persist with backup, after a set_value changed the   *)
(* document that the first persist wrote: the backup holds the first        *)
(* persist's document, the PMC file the current one                         *)
C9_Witness ==
  /\ last.op = "save" /\ last.flag /\ last.kind = "True"
  /\ last.pdisk.st = "file" /\ last.pdisk.d # doc
  /\ last.pbackup.st = "file" /\ last.pbackup # last.pdisk
  /\ backup = last.pdisk /\ disk = File(doc)

(* a persist with backup whose write failed *)
C9_WitnessWriteFails ==
  /\ last.op = "save" /\ last.flag /\ last.kind = "False"
  /\ last.pdisk.st = "file" /\ backup = last.pdisk

----------------------------------------------------------------------------
(* main(): the --set command *)

SetRes(D, dsk, bak, ok, kind, value) ==
  [doc |-> D, disk |-> dsk, backup |-> bak, ok |-> ok, kind |-> kind,
   value |-> value]

(* the tail of --set: set_config_value, then save_file on success *)
SetAndSave(D, dsk, bak, dev, variable, converted_value, no_backup, outcome) ==
  LET r == set_config_value(D, dev, variable, converted_value)
      w == save_file(r.doc, dsk, bak, ~no_backup, outcome)
  IN  IF r.ok
      THEN SetRes(r.doc, w.disk, w.backup, TRUE, w.ret, converted_value)
      ELSE SetRes(D, dsk, bak, FALSE, "set failed", converted_value)

(* mutant: a failed conversion does not abort, the text typed is stored *)
main_set_no_abort(D, dsk, bak, dev, variable, value, no_backup, outcome) ==
  LET c == convert_real_to_raw(D, dev, value)
  IN  IF variable \in THRESHOLD_PARAMS /\ c.kind = "ok"
      THEN SetAndSave(D, dsk, bak, dev, variable, FormatHex(c.v.n),
                      no_backup, outcome)
      ELSE SetAndSave(D, dsk, bak, dev, variable, value, no_backup, outcome)

main_set(D, dsk, bak, dev, variable, value, no_backup, outcome) ==
  LET c == convert_real_to_raw(D, dev, value)
  IN  IF variable \in THRESHOLD_PARAMS
      THEN IF c.kind = "ok"
           THEN SetAndSave(D, dsk, bak, dev, variable, FormatHex(c.v.n),
                           no_backup, outcome)
           ELSE SetRes(D, dsk, bak, FALSE, c.kind, value)
      ELSE SetAndSave(D, dsk, bak, dev, variable, value, no_backup, outcome)

----------------------------------------------------------------------------
(* interactive_set_thresholds and the --set-thres command *)

(* current_values: every SDR pair with a variable in threshold_params and a *)
(* <value> assigns current_values[var_name]                                 *)
CurrentValues(D, dev) ==
  LET i == get_device_by_name(D, dev)
  IN  [p \in {p \in THRESHOLD_PARAMS : ScanAssign(D[i].sdr, p, None) # None}
         |-> ScanAssign(D[i].sdr, p, None)]

(* index of the next parameter of ordered_params after i that is in         *)
(* current_values, 0 when there is none                                     *)
NextPresent(cv, i) ==
  LET later == {k \in (i + 1)..Len(ordered_params) :
                  ordered_params[k] \in DOMAIN cv}
  IN  IF later = {} THEN 0
      ELSE CHOOSE k \in later : \A m \in later : k <= m

(* current_real for the prompt of a parameter: a [kind, v] result *)
CurrentReal(D, dev, current_val) ==
  IF get_mval_rexp_from_anywhere(D, dev)[1] # None
  THEN convert_raw_to_real(D, dev, current_val)
  ELSE Fail("MissingCoefficients")

(* what one threshold prompt records for the stripped input: the new value, *)
(* or None when nothing is recorded                                         *)
ThresholdChange(D, dev, current_val, user_input) ==
  IF user_input = Empty THEN None
  ELSE IF CurrentReal(D, dev, current_val).kind = "ok"
  THEN LET raw_val == convert_real_to_raw(D, dev, user_input)
       IN  IF raw_val.kind = "ok" THEN FormatHex(raw_val.v.n) ELSE None
  ELSE user_input

Change(var, val) == [var |-> var, val |-> val]

(* for var, val in changes.items(): set_config_value, counting successes *)
RECURSIVE ApplyChanges(_, _, _, _)
ApplyChanges(D, dev, changes, success_count) ==
  IF changes = << >> THEN [doc |-> D, success_count |-> success_count]
  ELSE LET r == set_config_value(D, dev, Head(changes).var, Head(changes).val)
       IN  ApplyChanges(r.doc, dev, Tail(changes),
                        IF r.ok THEN success_count + 1 ELSE success_count)

(* mutant: the empty answer, the default of the (y/N) prompt, applies *)
StripLowerDefaultYes(answer) ==
  CASE answer \in {"y", "Y", " y", "Y ", ""} -> "y"
    [] answer \in {"n", "N"} -> "n"
    [] answer = "Yes" -> "yes"
    [] OTHER -> answer

(* input(...).strip().lower() of the answers the model draws *)
StripLower(answer) ==
  CASE answer \in {"y", "Y", " y", "Y "} -> "y"
    [] answer \in {"n", "N"} -> "n"
    [] answer = "Yes" -> "yes"
    [] OTHER -> answer

(* mutant: the test of the success count is inverted *)
ShouldSaveInverted(success_count, n) == success_count # n

ShouldSave(success_count, n) == success_count = n

(* Documents for the commands: D1 with the coefficients in device scope     *)
(* (complete, zero M_VAL, R_EXP missing, none), possibly a device-scope     *)
(* pair named like a threshold, and an SDR scope with UPPER_CRITICAL,       *)
(* LOWER_CRITICAL and a mask, present or not; and D1 without SDR section.   *)
CliCoeffs ==
  {<<Pair("M_VAL", Dec(2)), Pair("R_EXP", Dec(-1))>>,
   <<Pair("M_VAL", Dec(0)), Pair("R_EXP", Dec(-1))>>,
   <<Pair("M_VAL", Dec(2))>>,
   << >>}
CliExtras == {<< >>, <<Pair("UPPER_CRITICAL", Hex(1))>>}
CliUpper ==
  {<< >>, <<Pair("UPPER_CRITICAL", Hex(100))>>,
   <<Pair("UPPER_CRITICAL", Str(1))>>,
   <<Pair("UPPER_CRITICAL", NoElem), Pair("UPPER_CRITICAL", Hex(50))>>}
CliLower == {<< >>, <<Pair("LOWER_CRITICAL", Hex(10))>>}
CliMask == {<< >>, <<Pair("LWR_T_MASK", Str(9))>>}

CliDocs ==
  {<<Device("D1", c \o e, TRUE, u \o l \o k)>> :
     c \in CliCoeffs, e \in CliExtras, u \in CliUpper, l \in CliLower,
     k \in CliMask} \cup
  {<<Device("D1", c, FALSE, << >>)>> : c \in CliCoeffs}

CliDevNames == {"D1", "DX"}
CliSetVars ==
  {"UPPER_CRITICAL", "SDR_UPPER_CRITICAL", "FOO", "SDR_FOO", "LWR_T_MASK"}
CliSetValues == {Dec(20), Str(1)}
ThresholdInputs == {Empty, Blank, Dec(20), Dec(-1), Str(1)}
MaskInputs == {Empty, Str(8)}
Answers == {"y", "Y ", "n", ""}

CmdSet(dev, variable, value, no_backup, outcome) ==
  /\ pc = "main"
  /\ LET r == main_set(doc, disk, backup, dev, variable, value, no_backup,
                       outcome)
     IN  /\ doc' = r.doc /\ disk' = r.disk /\ backup' = r.backup
         /\ last' = [L0 EXCEPT !.op = "cmdset", !.dev = dev, !.var = variable,
                               !.arg = value, !.res = r.value, !.ok = r.ok,
                               !.kind = r.kind, !.pre = doc, !.pdisk = disk,
                               !.pbackup = backup, !.flag = ~no_backup]
  /\ pc' = "exit"
  /\ UNCHANGED <<sess, nops>>

SessStart(dev) ==
  /\ pc = "main"
  /\ LET i == get_device_by_name(doc, dev)
         begun == [S0 EXCEPT !.dev = dev, !.doc0 = doc, !.disk0 = disk,
                             !.backup0 = backup]
     IN  IF i = 0 \/ ~doc[i].hasSdr
         THEN /\ sess' = begun
              /\ pc' = "exit"
         ELSE LET cv == CurrentValues(doc, dev)
                  k == NextPresent(cv, 0)
              IN  /\ sess' = [begun EXCEPT !.current_values = cv, !.i = k,
                                           !.j = 1]
                  /\ pc' = IF k # 0 THEN "thr" ELSE "mask"
  /\ last' = [L0 EXCEPT !.op = "start", !.dev = dev, !.pre = doc]
  /\ UNCHANGED <<doc, disk, backup, nops>>

PromptThreshold(input) ==
  /\ pc = "thr"
  /\ LET param == ordered_params[sess.i]
         user_input == Strip(input)
         ch == ThresholdChange(doc, sess.dev, sess.current_values[param],
                               user_input)
         k == NextPresent(sess.current_values, sess.i)
     IN  /\ sess' = [sess EXCEPT
                       !.changes = IF ch = None THEN @
                                   ELSE Append(@, Change(param, ch)),
                       !.i = k]
         /\ pc' = IF k # 0 THEN "thr" ELSE "mask"
         /\ last' = [L0 EXCEPT !.op = "prompt", !.dev = sess.dev,
                               !.var = param, !.arg = user_input, !.res = ch,
                               !.pre = doc,
                               !.coef = get_mval_rexp_from_anywhere(doc, sess.dev)]
  /\ UNCHANGED <<doc, disk, backup, nops>>

PromptMask(input) ==
  /\ pc = "mask"
  /\ LET mask_param == mask_params[sess.j]
         mask_input == Strip(input)
         changes == IF mask_input # Empty
                    THEN Append(sess.changes, Change(mask_param, mask_input))
                    ELSE sess.changes
     IN  /\ sess' = [sess EXCEPT !.changes = changes, !.j = @ + 1]
         /\ pc' = IF sess.j < Len(mask_params) THEN "mask"
                  ELSE IF changes # << >> THEN "confirm" ELSE "exit"
         /\ last' = [L0 EXCEPT !.op = "mask", !.dev = sess.dev,
                               !.var = mask_param, !.arg = mask_input,
                               !.pre = doc]
  /\ UNCHANGED <<doc, disk, backup, nops>>

Confirm(answer, no_backup, outcome) ==
  /\ pc = "confirm"
  /\ LET r == ApplyChanges(doc, sess.dev, sess.changes, 0)
         w == save_file(r.doc, disk, backup, ~no_backup, outcome)
     IN  IF StripLower(answer) = "y"
         THEN /\ doc' = r.doc
              /\ IF ShouldSave(r.success_count, Len(sess.changes))
                 THEN disk' = w.disk /\ backup' = w.backup
                 ELSE UNCHANGED <<disk, backup>>
              /\ sess' = [sess EXCEPT
                            !.answer = answer, !.applied = TRUE,
                            !.success_count = r.success_count,
                            !.saved = ShouldSave(r.success_count,
                                                 Len(sess.changes))]
              /\ last' = [L0 EXCEPT !.op = "confirm", !.dev = sess.dev,
                                    !.pre = doc, !.pdisk = disk,
                                    !.pbackup = backup, !.flag = ~no_backup,
                                    !.kind = w.ret]
         ELSE /\ sess' = [sess EXCEPT !.answer = answer]
              /\ last' = [L0 EXCEPT !.op = "confirm", !.dev = sess.dev,
                                    !.pre = doc, !.pdisk = disk,
                                    !.pbackup = backup]
              /\ UNCHANGED <<doc, disk, backup>>
  /\ pc' = "exit"
  /\ UNCHANGED nops

InitCli ==
  /\ doc \in CliDocs
  /\ disk = File(doc) /\ backup \in {Missing, File(<< >>)}
  /\ pc = "main" /\ sess = S0 /\ last = L0 /\ nops = 0

NextCli ==
  \/ \E dev \in CliDevNames, v \in CliSetVars, x \in CliSetValues,
        nb \in BOOLEAN, o \in WriteOutcomes : CmdSet(dev, v, x, nb, o)
  \/ \E dev \in CliDevNames : SessStart(dev)
  \/ \E x \in ThresholdInputs : PromptThreshold(x)
  \/ \E x \in MaskInputs : PromptMask(x)
  \/ \E a \in Answers, nb \in BOOLEAN, o \in WriteOutcomes : Confirm(a, nb, o)

SpecCli == InitCli /\ [][NextCli]_vars

(* C6 as stated: at a threshold prompt of a device whose coefficients       *)
(* resolve, a non-empty input is converted: the change recorded is "0x" and *)
(* the hex digits of realToRaw(input), or nothing when the conversion       *)
(* fails; the input is never recorded verbatim.                             *)
C6_InputConvertedWhenCoefficientsResolve ==
  (last.op = "prompt" /\ last.arg # Empty /\ Usable) =>
    LET r == convert_real_to_raw(last.pre, last.dev, last.arg)
    IN  last.res = IF r.kind = "ok" THEN FormatHex(r.v.n) ELSE None

InSession == pc \in {"thr", "mask", "confirm"}
SessionOver == pc = "exit" /\ last.op \in {"start", "mask", "confirm"}
Untouched ==
  doc = sess.doc0 /\ disk = sess.disk0 /\ backup = sess.backup0
AnsweredYes == sess.answer \in {"y", "Y", " y", "Y "}

(* C7: in a threshold session nothing is mutated before the confirmation    *)
(* step, and when the answer there is not y or Y (white space around it     *)
(* aside) the in-memory document, the PMC file and the backup are what they *)
(* were at session start and set_value was never run.                       *)
C7_CancelMutatesNothing ==
  /\ InSession => (Untouched /\ ~sess.applied)
  /\ (SessionOver /\ ~AnsweredYes) => (Untouched /\ ~sess.applied)

(* a session with a converted threshold change and a mask change pending    *)
(* was answered n                                                           *)
C7_Witness ==
  /\ SessionOver /\ last.op = "confirm" /\ sess.answer = "n"
  /\ Len(sess.changes) >= 2
  /\ \E k \in 1..Len(sess.changes) :
       sess.changes[k] = Change("UPPER_CRITICAL", Hex(100))
  /\ Untouched

(* C8: after a confirmed threshold session persist is run if and only if    *)
(* every pending change was applied successfully, and then a successful     *)
(* write leaves the applied document in the PMC file; if a change failed    *)
(* the changes applied stay in the in-memory document and the PMC file and  *)
(* the backup are untouched.                                                *)
C8_PersistIffAllApplied ==
  (SessionOver /\ sess.applied) =>
    LET n == Len(sess.changes)
    IN  /\ doc = ApplyChanges(sess.doc0, sess.dev, sess.changes, 0).doc
        /\ sess.saved <=> sess.success_count = n
        /\ (sess.success_count = n /\ last.kind = "True")
             => (disk = File(doc) /\ (last.flag => backup = sess.disk0))
        /\ sess.success_count # n
             => (disk = sess.disk0 /\ backup = sess.backup0)

(* a confirmed session applied two changes that altered the document, and   *)
(* the PMC file holds the new document                                      *)
C8_Witness ==
  /\ SessionOver /\ sess.applied /\ Len(sess.changes) >= 2
  /\ sess.success_count = Len(sess.changes)
  /\ doc # sess.doc0 /\ disk = File(doc) /\ backup = sess.disk0

(* the reasons for which --set fails without being fatal, read off the      *)
(* document the command loaded                                              *)
SetFailureReason ==
  \/ ~Found
  \/ Found /\ StartsWithSDR(last.var) /\ ~SdrDefines(StripSDR(last.var))
  \/ /\ last.var \in THRESHOLD_PARAMS
     /\ convert_real_to_raw(last.pre, last.dev, last.arg).kind
          \in {"DeviceNotFound", "MissingCoefficients", "ConversionError",
               "DivisionByZero"}

(* C10: when --set fails (device not found, SDR_ variable not found, no SDR *)
(* section, or for a threshold parameter missing coefficients, unparseable  *)
(* input or zero denominator) no value of the in-memory document changes    *)
(* and neither the PMC file nor the backup is written; the file is written  *)
(* only after set_value returned success.                                   *)
C10_FailedSetWritesNothing ==
  last.op = "cmdset" =>
    /\ SetFailureReason => ~last.ok
    /\ ~last.ok =>
         (doc = last.pre /\ disk = last.pdisk /\ backup = last.pbackup)

(* --set of a threshold parameter that the SDR scope holds, refused for a   *)
(* zero denominator                                                         *)
C10_Witness ==
  /\ last.op = "cmdset" /\ last.var = "UPPER_CRITICAL" /\ Found
  /\ SdrDefines("UPPER_CRITICAL") /\ last.kind = "DivisionByZero"
  /\ ~last.ok /\ doc = last.pre /\ disk = last.pdisk

----------------------------------------------------------------------------
(* Scopes with several pairs of the same name: up to n + 1 pairs M_VAL and  *)
(* R_EXP in the device scope of D1 and up to n in its SDR scope, every pair *)
(* with a <value>, the texts all different.                                 *)

DupCfgPairs ==
  {Pair("M_VAL", Dec(2)), Pair("M_VAL", Dec(4)),
   Pair("R_EXP", Dec(-1)), Pair("R_EXP", Dec(1))}
DupSdrPairs ==
  {Pair("M_VAL", Hex(3)), Pair("M_VAL", Hex(5)), Pair("R_EXP", Dec(0))}

DupDocs(n) ==
  {<<Device("D1", c, TRUE, s)>> :
     c \in SeqsUpTo(DupCfgPairs, n + 1), s \in SeqsUpTo(DupSdrPairs, n)}

DupVars == {"M_VAL", "R_EXP", "SDR_M_VAL"}
DupValues == {Dec(7)}

InitDuplicates ==
  /\ doc \in DupDocs(MaxPairs)
  /\ disk = File(doc) /\ backup = Missing
  /\ pc = "api" /\ sess = S0 /\ last = L0 /\ nops = 0

NextDuplicates ==
  \/ \E v \in DupVars : DoGet("D1", v)
  \/ \E v \in DupVars, x \in DupValues : DoSet("D1", v, x)
  \/ DoCoeffs("D1")

SpecDuplicates == InitDuplicates /\ [][NextDuplicates]_vars

(* the value of the first pair named v of a scope that defines v *)
FirstValue(pairs, v) == ValText(pairs[FirstMatch(pairs, v)])

(* the document with the first pair named v of a scope overwritten *)
FirstOverwritten(scope, v, x) ==
  LET i == get_device_by_name(last.pre, last.dev)
  IN  [last.pre EXCEPT ![i][scope][FirstMatch(Target[scope], v)].val = x]

(* C11: in a scope with several pairs of the same name every lookup uses    *)
(* the first such pair in document order: get_value returns its value,      *)
(* set_value overwrites it, and the M_VAL and R_EXP that the coefficient    *)
(* resolver returns from the device scope, or from the SDR scope, are the   *)
(* values of the first M_VAL pair and of the first R_EXP pair of that scope.*)
C11_FirstPairWins ==
  Found =>
    /\ last.op = "get" =>
         IF StartsWithSDR(last.var)
         THEN SdrDefines(StripSDR(last.var))
                => last.res = FirstValue(Target.sdr, StripSDR(last.var))
         ELSE IF Defines(Target.cfg, last.var)
         THEN last.res = FirstValue(Target.cfg, last.var)
         ELSE SdrDefines(last.var)
                => last.res = FirstValue(Target.sdr, last.var)
    /\ (last.op = "set" /\ last.ok) =>
         IF StartsWithSDR(last.var)
         THEN doc = FirstOverwritten("sdr", StripSDR(last.var), last.arg)
         ELSE IF Defines(Target.cfg, last.var)
         THEN doc = FirstOverwritten("cfg", last.var, last.arg)
         ELSE SdrDefines(last.var)
                => doc = FirstOverwritten("sdr", last.var, last.arg)
    /\ last.op = "coeffs" =>
         IF Defines(Target.cfg, "M_VAL") /\ Defines(Target.cfg, "R_EXP")
         THEN last.coef = <<FirstValue(Target.cfg, "M_VAL"),
                            FirstValue(Target.cfg, "R_EXP")>>
         ELSE (SdrDefines("M_VAL") /\ SdrDefines("R_EXP"))
                => last.coef = <<FirstValue(Target.sdr, "M_VAL"),
                                 FirstValue(Target.sdr, "R_EXP")>>

----------------------------------------------------------------------------
(* The frame of set_config_value, on the documents of the resolver *)

(* positions of a scope of the addressed device whose value differs from    *)
(* the one the call started from                                            *)
ChangedValues(scope) ==
  LET i == get_device_by_name(last.pre, last.dev)
  IN  {k \in 1..Len(Target[scope]) : doc[i][scope][k].val # Target[scope][k].val}

SameNames(scope) ==
  LET i == get_device_by_name(last.pre, last.dev)
  IN  \A k \in 1..Len(Target[scope]) : doc[i][scope][k].var = Target[scope][k].var

(* C12: a successful set_value either replaces the value of exactly one     *)
(* existing pair of the named device (device scope or SDR scope) by the new *)
(* value, or appends exactly one pair (variable, new value) at the end of   *)
(* the device-scope pairs; the variable names and the order of the pairs    *)
(* that existed, every other value, the length of the SDR pair list and     *)
(* every other device stay as they were.                                    *)
C12_SetFrame ==
  (last.op = "set" /\ last.ok) =>
    LET i == get_device_by_name(last.pre, last.dev)
        changed == ChangedValues("cfg") \cup ChangedValues("sdr")
    IN  /\ Found
        /\ Len(doc) = Len(last.pre)
        /\ \A j \in 1..Len(doc) : j # i => doc[j] = last.pre[j]
        /\ doc[i].name = Target.name /\ doc[i].hasSdr = Target.hasSdr
        /\ Len(doc[i].sdr) = Len(Target.sdr)
        /\ SameNames("cfg") /\ SameNames("sdr")
        /\ \/ /\ Len(doc[i].cfg) = Len(Target.cfg)
              /\ Cardinality(ChangedValues("cfg")) +
                 Cardinality(ChangedValues("sdr")) = 1
              /\ \A k \in ChangedValues("cfg") : doc[i].cfg[k].val = last.arg
              /\ \A k \in ChangedValues("sdr") : doc[i].sdr[k].val = last.arg
           \/ /\ Len(doc[i].cfg) = Len(Target.cfg) + 1
              /\ doc[i].cfg[Len(doc[i].cfg)] = Pair(last.var, last.arg)
              /\ changed = {}

(* set_value("FOO") on a device scope with two FOO pairs that carry a value *)
(* and an SDR scope that defines FOO too: only the first was overwritten    *)
C12_Witness ==
  /\ last.op = "set" /\ last.ok /\ Found /\ last.var = "FOO"
  /\ Len(Target.cfg) = 2
  /\ \A k \in 1..2 : Target.cfg[k].var = "FOO" /\ Target.cfg[k].val # NoElem
  /\ SdrDefines("FOO")
  /\ ChangedValues("cfg") = {1} /\ ChangedValues("sdr") = {}
  /\ doc[1].cfg[1].val = last.arg

(* C13: set-then-get consistency.  On every document, with duplicate names  *)
(* and pairs lacking a <value> included, and for every variable name,       *)
(* prefixed or not: when set_value(D, V, x) returned success, get_value(D,  *)
(* V) on the document it left returns x.                                    *)
C13_SetThenGet ==
  (last.op = "set" /\ last.ok) =>
    get_config_value(doc, last.dev, last.var) = last.arg

----------------------------------------------------------------------------
(* What a threshold session on a document displays as the current value of  *)
(* a parameter: current_values[p] for a threshold, get_sdr_config_value for *)
(* a mask; None when the session shows nothing, or "Not set"                *)
Displayed(D, dev, p) ==
  IF p \in THRESHOLD_PARAMS
  THEN IF p \in DOMAIN CurrentValues(D, dev)
       THEN CurrentValues(D, dev)[p] ELSE None
  ELSE get_sdr_config_value(D, dev, p)

(* C14: after a confirmed threshold session, for every pending change       *)
(* (p, v) that was applied the SDR scope holds v under p, so that a         *)
(* subsequent session on the device displays v as the current value of p;   *)
(* also when the device scope defines a pair named p and when a mask was    *)
(* absent before the session.                                               *)
C14_AppliedChangesShowInSdr ==
  (SessionOver /\ sess.applied) =>
    \A k \in 1..Len(sess.changes) :
      Displayed(doc, sess.dev, sess.changes[k].var) = sess.changes[k].val

----------------------------------------------------------------------------
(* A device is convertible when its coefficients resolve and parse with a   *)
(* nonzero denominator and rawToReal converts the value of every threshold  *)
(* parameter of its SDR scope                                               *)
Convertible(D, dev) ==
  LET i == get_device_by_name(D, dev)
      cf == get_mval_rexp_from_anywhere(D, dev)
  IN  /\ i # 0
      /\ cf[1] # None /\ cf[2] # None
      /\ ParseIntAuto(cf[1]).ok /\ ParseIntAuto(cf[2]).ok
      /\ ParseIntAuto(cf[1]).v.n # 0
      /\ \A k \in 1..Len(D[i].sdr) :
           D[i].sdr[k].var \in THRESHOLD_PARAMS
             => convert_raw_to_real(D, dev, ValText(D[i].sdr[k])).kind = "ok"

(* C15: convertibility is preserved.  On a convertible device, after --set  *)
(* of a threshold parameter with a numeric value, and after a confirmed     *)
(* threshold session (whose threshold inputs, positive, zero or negative,   *)
(* are recorded only when they are numeric), the device is convertible      *)
(* again.                                                                   *)
C15_ConvertibilityPreserved ==
  /\ (/\ last.op = "cmdset" /\ last.var \in THRESHOLD_PARAMS
      /\ ParseReal(last.arg).ok /\ Convertible(last.pre, last.dev))
       => Convertible(doc, last.dev)
  /\ (SessionOver /\ sess.applied /\ Convertible(sess.doc0, sess.dev))
       => Convertible(doc, sess.dev)

----------------------------------------------------------------------------
(* C16: the confirmation step is reached only with a non-empty set of       *)
(* pending changes, on a device that exists, every change under an          *)
(* unprefixed name; when the answer is y every application succeeds: the    *)
(* success count equals the number of pending changes, persist is run (and  *)
(* a successful write leaves the document in the PMC file), and the         *)
(* partial-failure outcome, changes applied but the file not saved, is      *)
(* never reached.                                                           *)
C16_EveryApplySucceeds ==
  /\ pc = "confirm" =>
       /\ sess.changes # << >>
       /\ get_device_by_name(doc, sess.dev) # 0
       /\ \A k \in 1..Len(sess.changes) : ~StartsWithSDR(sess.changes[k].var)
  /\ (SessionOver /\ last.op = "confirm" /\ AnsweredYes) =>
       /\ sess.applied
       /\ sess.success_count = Len(sess.changes)
       /\ sess.saved
       /\ last.kind = "True" => disk = File(doc)
  /\ ~(sess.applied /\ ~sess.saved)

(* a confirmed session applied a threshold change and created a mask that   *)
(* neither scope held before, and the file was saved                        *)
C16_Witness ==
  /\ SessionOver /\ sess.applied /\ sess.saved
  /\ sess.success_count = Len(sess.changes)
  /\ get_config_value(sess.doc0, sess.dev, "LWR_T_MASK") = None
  /\ \E k \in 1..Len(sess.changes) : sess.changes[k].var = "LWR_T_MASK"
  /\ \E k \in 1..Len(sess.changes) : sess.changes[k].var \in THRESHOLD_PARAMS
  /\ Len(doc[1].cfg) > Len(sess.doc0[1].cfg)
  /\ disk = File(doc)

====
